---- MODULE Spec2Model ----
(***************************************************************************)
(* FeatureSelection.ipynb as a state machine.  The kernel namespace is the *)
(* state; every code cell is an action that runs its statements in order   *)
(* and stops at the first library call that raises.  Tables are matrices   *)
(* of exact rationals: integer numerators with one positive denominator    *)
(* per column.  The library operations the cells call (scalers, chi2,      *)
(* SelectKBest, PolynomialFeatures, RFE, RFECV, train_test_split) are      *)
(* operators written from the notebook's own description of them and from  *)
(* the arguments the cells pass.                                           *)
(***************************************************************************)
EXTENDS Integers, Sequences, FiniteSets, TLC

\* ------------------------------------------------------------------ bounds
\* Number of data sets the run may start from (the random draws of the
\* second code cell and the samples of the bundled data set).
MaxSeed == 2
\* Rows of the stand-in for the bundled breast-cancer table.
NSamples == 4
\* Raw measurements of the stand-in table lie in 1..MaxVal.
MaxVal == 3
\* Cross-validation folds the library's RFECV fits.
NFolds == 2

\* ------------------------------------------------------- program constants
rows == 100
TestCols == 4
NFeatures == 30
KUnivariate == 5
NFeaturesToSelect == 5
\* RFE dropping two features per refit.
RfeStepTwo == 1 + 1

RfeStep == 1
PolyDegree == 2
KPoly == 100
NCores == 8
FixedScale == 1000

\* ---------------------------------------------------------------- helpers
Abs(x) == IF x < 0 THEN -x ELSE x

Min2(a, b) == IF a < b THEN a ELSE b

\* The sum of s[i..j], by halves.
RECURSIVE SumRange(_, _, _)
SumRange(s, i, j) ==
    IF i > j THEN 0
    ELSE IF i = j THEN s[i]
    ELSE LET mid == (i + j) \div 2
         IN  SumRange(s, i, mid) + SumRange(s, mid + 1, j)

SumSeq(s) == SumRange(s, 1, Len(s))

RECURSIVE GCD(_, _)
GCD(a, b) == IF b = 0 THEN a ELSE GCD(b, a % b)

\* Largest r with r * r <= n, by bisection on lo..hi.
RECURSIVE ISqrtIn(_, _, _)
ISqrtIn(n, lo, hi) ==
    IF lo >= hi THEN lo
    ELSE LET mid == (lo + hi + 1) \div 2
         IN  IF mid * mid <= n THEN ISqrtIn(n, mid, hi) ELSE ISqrtIn(n, lo, mid - 1)

ISqrt(n) == ISqrtIn(n, 0, Min2(n, 46340))

\* A table: vals[r][c] / den[c] is the entry of row r, column c.
NRows(t) == Len(t.vals)

NCols(t) == Len(t.den)

Shape(t) == <<NRows(t), NCols(t)>>

Column(t, c) == [r \in 1..NRows(t) |-> t.vals[r][c]]

\* The k-th smallest entry of s (k = 1 is the minimum).
OrderStat(s, k) ==
    CHOOSE x \in {s[i] : i \in 1..Len(s)} :
        /\ Cardinality({j \in 1..Len(s) : s[j] < x}) < k
        /\ Cardinality({j \in 1..Len(s) : s[j] <= x}) >= k

SeqMin(s) == CHOOSE x \in {s[i] : i \in 1..Len(s)} : \A i \in 1..Len(s) : x <= s[i]

SeqMax(s) == CHOOSE x \in {s[i] : i \in 1..Len(s)} : \A i \in 1..Len(s) : x >= s[i]

\* ------------------------------------------------------------- input data
\* The draw of entry (r, c) under data set `seed`, in 0..m-1.
Draw(seed, r, c, m) ==
    ((((31 * r + 17 * c + 13 * seed + 7 * r * c + 5) * (r * c + seed + 11)) % 1009) \div 7) % m

\* rows = 100; test_data = np.empty((rows,4)) and the four column fills, in
\* tenths: uniform on [1.5, 3.5), a normal cut at three deviations,
\* randint(-50, 25)/10, and exp of a uniform on [1.5, 2.5).
MakeTestData(seed) ==
    [vals |-> [r \in 1..rows |->
                 << 15 + Draw(seed, r, 0, 20),
                    Draw(seed, r, 1, 61) - 30,
                    Draw(seed, r, 2, 75) - 50,
                    45 + Draw(seed, r, 3, 77) >>],
     den  |-> [c \in 1..TestCols |-> 10]]

\* load_breast_cancer(): NFeatures positive measurements per sample and a
\* two-class target in which both classes occur.
LoadData(seed) ==
    [vals |-> [r \in 1..NSamples |->
                 [c \in 1..NFeatures |-> 1 + Draw(seed, r, c, MaxVal)]],
     den  |-> [c \in 1..NFeatures |-> 1]]

LoadTarget(seed) == [r \in 1..NSamples |-> (r + seed) % 2]

\* ----------------------------------------------------------------- scalers
\* Four times the quantile k/4 of the column s (linear interpolation
\* between the two neighbouring order statistics).
Quantile4(s, k) ==
    LET h  == (Len(s) - 1) * k
        lo == h \div 4
        fr == h % 4
        a  == OrderStat(s, lo + 1)
    IN  IF fr = 0 THEN 4 * a ELSE 4 * a + fr * (OrderStat(s, lo + 2) - a)

\* StandardScaler().fit_transform: remove the column mean, scale to unit
\* variance; the quotient is kept to FixedScale parts.  A column of zero
\* variance is only centred.
StandardScalerFitTransform(t) ==
    LET n     == NRows(t)
        sum   == [c \in 1..NCols(t) |-> SumSeq(Column(t, c))]
        sumsq == [c \in 1..NCols(t) |->
                    SumSeq([r \in 1..n |-> t.vals[r][c] * t.vals[r][c]])]
        nsd   == [c \in 1..NCols(t) |-> ISqrt(n * sumsq[c] - sum[c] * sum[c])]
    IN  [vals |-> [r \in 1..n |-> [c \in 1..NCols(t) |->
                     IF nsd[c] = 0 THEN 0
                     ELSE ((n * t.vals[r][c] - sum[c]) * FixedScale) \div nsd[c]]],
         den  |-> [c \in 1..NCols(t) |-> FixedScale]]

\* RobustScaler().fit_transform: remove the median, scale by the
\* interquartile range (left alone when that range is zero).
RobustScalerFitTransform(t) ==
    LET med4 == [c \in 1..NCols(t) |-> Quantile4(Column(t, c), 2)]
        iqr4 == [c \in 1..NCols(t) |->
                   Quantile4(Column(t, c), 3) - Quantile4(Column(t, c), 1)]
    IN  [vals |-> [r \in 1..NRows(t) |-> [c \in 1..NCols(t) |->
                     4 * t.vals[r][c] - med4[c]]],
         den  |-> [c \in 1..NCols(t) |->
                     IF iqr4[c] = 0 THEN 4 * t.den[c] ELSE iqr4[c]]]

\* A MinMaxScaler that leaves out the columns it cannot scale.
MinMaxDropConstant(t) ==
    LET lo   == [c \in 1..NCols(t) |-> SeqMin(Column(t, c))]
        hi   == [c \in 1..NCols(t) |-> SeqMax(Column(t, c))]
        keep == {c \in 1..NCols(t) : hi[c] # lo[c]}
        idx  == [p \in 1..Cardinality(keep) |->
                   CHOOSE i \in keep : Cardinality({j \in keep : j < i}) = p - 1]
    IN  [vals |-> [r \in 1..NRows(t) |-> [p \in 1..Len(idx) |->
                     t.vals[r][idx[p]] - lo[idx[p]]]],
         den  |-> [p \in 1..Len(idx) |-> hi[idx[p]] - lo[idx[p]]]]

\* MinMaxScaler().fit_transform: translate and scale each column into the
\* default range, zero to one (a constant column goes to zero).
MinMaxScalerFitTransform(t) ==
    LET lo == [c \in 1..NCols(t) |-> SeqMin(Column(t, c))]
        hi == [c \in 1..NCols(t) |-> SeqMax(Column(t, c))]
    IN  [vals |-> [r \in 1..NRows(t) |-> [c \in 1..NCols(t) |->
                     t.vals[r][c] - lo[c]]],
         den  |-> [c \in 1..NCols(t) |->
                     IF hi[c] = lo[c] THEN t.den[c] ELSE hi[c] - lo[c]]]

\* MaxAbsScaler().fit_transform: divide each column by its largest absolute
\* value; nothing is shifted.
MaxAbsScalerFitTransform(t) ==
    LET mx == [c \in 1..NCols(t) |->
                 SeqMax([r \in 1..NRows(t) |-> Abs(t.vals[r][c])])]
    IN  [vals |-> t.vals,
         den  |-> [c \in 1..NCols(t) |-> IF mx[c] = 0 THEN t.den[c] ELSE mx[c]]]

\* --------------------------------------------------- polynomial expansion
\* combinations_with_replacement of lo..n taken k at a time, in
\* lexicographic order.
RECURSIVE CombosWithReplacement(_, _, _)
CombosWithReplacement(lo, n, k) ==
    IF k = 0 THEN << <<>> >>
    ELSE IF lo > n THEN <<>>
    ELSE LET rest == CombosWithReplacement(lo, n, k - 1)
         IN  [i \in 1..Len(rest) |-> <<lo>> \o rest[i]]
             \o CombosWithReplacement(lo + 1, n, k)

\* The monomials without the bias column.
RECURSIVE PolyCombosNoBias(_, _)
PolyCombosNoBias(n, degree) ==
    IF degree <= 1 THEN CombosWithReplacement(1, n, degree)
    ELSE PolyCombosNoBias(n, degree - 1) \o CombosWithReplacement(1, n, degree)

\* The monomials of degree 0..degree over n features: the bias column, the
\* features themselves, then every product of two (and so on).
RECURSIVE PolyCombos(_, _)
PolyCombos(n, degree) ==
    IF degree = 0 THEN CombosWithReplacement(1, n, 0)
    ELSE PolyCombos(n, degree - 1) \o CombosWithReplacement(1, n, degree)

RECURSIVE ProdAt(_, _)
ProdAt(row, combo) ==
    IF combo = <<>> THEN 1 ELSE row[Head(combo)] * ProdAt(row, Tail(combo))

\* PolynomialFeatures(degree).fit_transform(t)
PolyFitTransform(t, degree) ==
    LET combos == PolyCombos(NCols(t), degree)
    IN  [vals |-> [r \in 1..NRows(t) |-> [j \in 1..Len(combos) |->
                     ProdAt(t.vals[r], combos[j])]],
         den  |-> [j \in 1..Len(combos) |-> ProdAt(t.den, combos[j])]]

\* ------------------------------------------------------ univariate scores
\* A chi2 score is the rational num/den, or nan (a feature whose total is 0).
ScoreLess(a, b) ==
    IF a.nan \/ b.nan THEN a.nan /\ ~b.nan
    ELSE a.num * b.den < b.num * a.den

ScoreEq(a, b) == ~ScoreLess(a, b) /\ ~ScoreLess(b, a)

HasNegative(t) ==
    \E r \in 1..NRows(t) : \E c \in 1..NCols(t) : t.vals[r][c] < 0

\* chi2(X, y) for feature f: the sum over the classes of
\* (observed - expected)^2 / expected, where observed is the class's total of
\* the feature and expected is the class frequency times the feature's total.
Chi2Feature(t, y, f) ==
    LET n     == NRows(t)
        cnt   == [c \in {0, 1} |-> Cardinality({r \in 1..n : y[r] = c})]
        obs   == [c \in {0, 1} |->
                    SumSeq([r \in 1..n |-> IF y[r] = c THEN t.vals[r][f] ELSE 0])]
        tot   == obs[0] + obs[1]
        dev   == [c \in {0, 1} |-> n * obs[c] - cnt[c] * tot]
        num   == dev[0] * dev[0] * cnt[1] + dev[1] * dev[1] * cnt[0]
        den   == n * cnt[0] * cnt[1] * tot * t.den[f]
        g     == GCD(num, den)
    IN  IF den = 0 THEN [num |-> 0, den |-> 1, nan |-> TRUE]
        ELSE [num |-> num \div g, den |-> den \div g, nan |-> FALSE]

Chi2(t, y) == [f \in 1..NCols(t) |-> Chi2Feature(t, y, f)]

\* A mask that takes the first k entries of the argsort: the k lowest scores.
KBestLowest(scores, k) ==
    {i \in 1..Len(scores) :
        Cardinality({j \in 1..Len(scores) :
                        \/ ScoreLess(scores[j], scores[i])
                        \/ (ScoreEq(scores[i], scores[j]) /\ j < i)}) < k}

\* A mask that drops the first k entries of the argsort instead of keeping
\* the last k.
KBestDropLowest(scores, k) ==
    {i \in 1..Len(scores) :
        Cardinality({j \in 1..Len(scores) :
                        \/ ScoreLess(scores[j], scores[i])
                        \/ (ScoreEq(scores[i], scores[j]) /\ j < i)}) >= k}

\* SelectKBest's mask: the last k entries of the stable ascending argsort
\* of the scores, nan counting as the smallest score.
KBestSupport(scores, k) ==
    {i \in 1..Len(scores) :
        Cardinality({j \in 1..Len(scores) :
                        \/ ScoreLess(scores[i], scores[j])
                        \/ (ScoreEq(scores[i], scores[j]) /\ j > i)}) < k}

\* The p-th smallest member of a set of column indices.
NthOf(S, p) == CHOOSE i \in S : Cardinality({j \in S : j < i}) = p - 1

\* X[:, mask]: the columns of t whose index is in S, in their order in t.
TakeColumns(t, S) ==
    LET idx == [p \in 1..Cardinality(S) |-> NthOf(S, p)]
    IN  [vals |-> [r \in 1..NRows(t) |-> [p \in 1..Len(idx) |-> t.vals[r][idx[p]]]],
         den  |-> [p \in 1..Len(idx) |-> t.den[idx[p]]]]

\* sort_values(ascending=False) of the scores: the feature indices from the
\* largest score to the smallest, nan last.
SortDescending(scores) ==
    LET pos == [i \in 1..Len(scores) |->
                  1 + Cardinality({j \in 1..Len(scores) :
                                      \/ ScoreLess(scores[i], scores[j])
                                      \/ (ScoreEq(scores[i], scores[j]) /\ j < i)})]
    IN  [p \in 1..Len(scores) |-> CHOOSE i \in 1..Len(scores) : pos[i] = p]

\* ------------------------------------------------------- train_test_split
\* The shuffle of n rows under random_state rs.
Permutation(rs, n) == [i \in 1..n |-> ((i + rs) % n) + 1]

\* A quarter of the rows, rounded up, is held out for testing.
TestSize(n) == (n + 3) \div 4

TakeRows(t, idx) ==
    [vals |-> [i \in 1..Len(idx) |-> t.vals[idx[i]]], den |-> t.den]

\* -------------------------------------------------------------------- state
VARIABLES
    seed,          \* which data set this run draws and loads
    pc,            \* index of the code cell being run (NCells + 1: all done)
    ip,            \* index, within that cell, of the next statement
    status,        \* "idle", "rfe", "rfecv" (inside rfe.fit / rfecv.fit), "stopped"
    ns,            \* the kernel namespace: name -> the object it is bound to
    cellStart,     \* the namespace as it was when the current cell started
    err,           \* the error that ended the run, if any
    trace,         \* lines of the statements completed so far, in order
    fits,          \* every estimator fit so far: line, estimator, columns, input
    rfeSupport,    \* RFE: the features still in
    rfeRanking,    \* RFE: ranking_ of every feature
    rfeRefits,     \* RFE: eliminations made by the current rfe.fit
    pendingFolds,  \* RFECV: cross-validation folds not yet fitted
    workers,       \* RFECV: library workers fitting folds side by side
    prevSel        \* the selector fitted before the current one (SpecSelect)

vars == <<seed, pc, ip, status, ns, cellStart, err, trace, fits, rfeSupport,
          rfeRanking, rfeRefits, pendingFolds, workers, prevSel>>

Names ==
    {"np", "pd", "train_test_split", "load_breast_cancer", "plt",
     "StandardScaler", "RobustScaler", "MinMaxScaler", "MaxAbsScaler",
     "SelectKBest", "chi2", "LinearRegression", "KNeighborsClassifier", "RFE",
     "RandomForestClassifier", "RFECV", "PolynomialFeatures",
     "rows", "test_data", "scaled1", "scaled2", "scaled3", "scaled4",
     "cancer", "selector", "X_new", "kbest", "lr", "knn",
     "X_train", "X_test", "y_train", "y_test", "rfe", "rf", "rfecv",
     "poly", "X_poly", "rfc", "acc", "X_poly_scaled"}

\* An object bound at `line` by `by`; line 0 is "not bound".
Obj(line, by) ==
    [line |-> line, by |-> by, vals |-> <<>>, den |-> <<>>, y |-> <<>>,
     k |-> 0, njobs |-> 0, scores |-> <<>>, support |-> {}, ranking |-> <<>>,
     n_features_ |-> 0, fitCols |-> 0, src |-> <<>>]

Unbound == Obj(0, "")

NoErr == [line |-> 0, what |-> ""]

\* The table t bound at `line`, made by `by` from the binding `from`.
TableObj(line, by, t, from) ==
    [Obj(line, by) EXCEPT !.vals = t.vals, !.den = t.den, !.src = from]

Ref(n, name) == <<name, n[name].line>>

TableOf(o) == [vals |-> o.vals, den |-> o.den]

\* ---------------------------------------------------------------- the cells
\* A statement: its line, the names it binds, the library call it waits in
\* ("" when it runs in one step) and whether it calls library code at all.
S(line, targets) == [line |-> line, targets |-> targets, long |-> "", calls |-> TRUE]

Plain(line, targets) == [line |-> line, targets |-> targets, long |-> "", calls |-> FALSE]

Long(line, targets, call) == [line |-> line, targets |-> targets, long |-> call, calls |-> TRUE]

CellSetup == << S(23, {"np", "pd", "train_test_split", "load_breast_cancer"}) >>

CellTestData ==
    << Plain(43, {"rows"}), S(44, {"test_data"}), S(45, {}), S(46, {}), S(47, {}),
       S(48, {}), S(49, {}) >>

CellDescribeData == << S(58, {}) >>

CellKdeData == << S(67, {}) >>

CellHistData == << S(76, {}) >>

CellStandardScaler == << S(96, {"StandardScaler"}), S(97, {"scaled1"}), S(98, {}) >>

CellDescribe1 == << S(107, {}) >>

CellKde1 == << S(116, {}) >>

CellHist1 == << S(125, {}) >>

CellRobustScaler == << S(143, {"RobustScaler"}), S(144, {"scaled2"}), S(145, {}) >>

CellDescribe2 == << S(154, {}) >>

CellKde2 == << S(163, {}) >>

CellHist2 == << S(172, {}) >>

CellMinMaxScaler == << S(190, {"MinMaxScaler"}), S(191, {"scaled3"}), S(192, {}) >>

CellDescribe3 == << S(201, {}) >>

CellKde3 == << S(210, {}) >>

CellHist3 == << S(219, {}) >>

CellMaxAbsScaler == << S(237, {"MaxAbsScaler"}), S(238, {"scaled4"}), S(239, {}) >>

CellDescribe4 == << S(248, {}) >>

CellKde4 == << S(257, {}) >>

CellHist4 == << S(266, {}) >>

CellLoad == << S(297, {"cancer"}) >>

CellUnivariate ==
    << S(315, {"SelectKBest"}), S(316, {"chi2"}), S(318, {"selector"}),
       S(319, {"X_new"}), S(320, {}) >>

CellKBest == << S(329, {"kbest"}), S(330, {}) >>

CellModels ==
    << S(346, {"LinearRegression"}), S(347, {"KNeighborsClassifier"}),
       S(348, {"lr", "knn"}) >>

CellFitRaw ==
    << S(357, {"X_train", "X_test", "y_train", "y_test"}), S(359, {}), S(360, {}),
       S(361, {}) >>

CellFitSelected ==
    << S(377, {"X_train", "X_test", "y_train", "y_test"}), S(379, {}), S(380, {}),
       S(381, {}) >>

CellRFE ==
    << S(402, {"RFE"}), S(404, {"lr"}), S(405, {"rfe"}), Long(406, {}, "rfe"),
       S(408, {}) >>

CellRFECV ==
    << S(431, {"plt"}), S(432, {"RandomForestClassifier"}), S(433, {"RFECV"}),
       S(435, {"rf"}), S(436, {"rfecv"}), Long(437, {}, "rfecv"), S(440, {}),
       S(441, {}), S(442, {}), S(443, {}), S(444, {}), S(445, {}) >>

CellPoly ==
    << S(465, {"PolynomialFeatures"}), S(466, {"poly"}), S(467, {"X_poly"}),
       S(468, {"rfc"}) >>

CellRawForest ==
    << S(477, {"X_train", "X_test", "y_train", "y_test"}), S(480, {"acc"}),
       S(481, {}) >>

CellScalePoly ==
    << S(493, {"MinMaxScaler"}), S(494, {"X_poly_scaled"}),
       S(496, {"X_train", "X_test", "y_train", "y_test"}), S(499, {"acc"}),
       S(500, {}) >>

CellBest100 ==
    << S(516, {"SelectKBest", "chi2"}), S(517, {"selector"}), S(518, {"X_new"}),
       S(519, {"X_train", "X_test", "y_train", "y_test"}), S(522, {"acc"}),
       S(523, {}) >>

CellRFECVPoly ==
    << S(542, {"X_train", "X_test", "y_train", "y_test"}), S(545, {"rfecv"}),
       Long(546, {"acc"}, "rfecv"), S(547, {}) >>

\* The code cells in notebook order.
Cells ==
    << CellSetup, CellTestData, CellDescribeData, CellKdeData, CellHistData,
       CellStandardScaler, CellDescribe1, CellKde1, CellHist1,
       CellRobustScaler, CellDescribe2, CellKde2, CellHist2,
       CellMinMaxScaler, CellDescribe3, CellKde3, CellHist3,
       CellMaxAbsScaler, CellDescribe4, CellKde4, CellHist4,
       CellLoad, CellUnivariate, CellKBest, CellModels, CellFitRaw,
       CellFitSelected, CellRFE, CellRFECV, CellPoly, CellRawForest,
       CellScalePoly, CellBest100, CellRFECVPoly >>

NCells == Len(Cells)

\* The cell a line belongs to.
CellOfLine(line) ==
    CHOOSE c \in 1..NCells : \E i \in 1..Len(Cells[c]) : Cells[c][i].line = line

\* ----------------------------------------------------------- the statements
\* Every effect maps the machine m = [ns, fits] before the statement to the
\* machine after it.
Put(m, name, obj) == [m EXCEPT !.ns[name] = obj]

Logged(m, line, est, cols, src) ==
    [m EXCEPT !.fits = Append(@, [line |-> line, est |-> est, cols |-> cols, src |-> src])]

\* test_data = np.empty((rows,4)): whatever the memory held.
MakeEmpty(m) ==
    Put(m, "test_data",
        TableObj(44, "np.empty",
                 [vals |-> [r \in 1..rows |-> [c \in 1..TestCols |->
                              Draw(seed, r, c + 7, 199) - 99]],
                  den  |-> [c \in 1..TestCols |-> 10]],
                 <<>>))

\* test_data[:,c-1] = ...: the array bound to test_data gets its column c.
FillColumn(m, c) ==
    [m EXCEPT !.ns["test_data"].vals =
        [r \in 1..rows |-> [@[r] EXCEPT ![c] = MakeTestData(seed).vals[r][c]]]]

\* scaled1 = StandardScaler().fit_transform(test_data)
BindScaled1(m) ==
    Put(m, "scaled1",
        TableObj(97, "StandardScaler",
                 StandardScalerFitTransform(TableOf(m.ns["test_data"])),
                 Ref(m.ns, "test_data")))

\* scaled2 = RobustScaler().fit_transform(test_data)
BindScaled2(m) ==
    Put(m, "scaled2",
        TableObj(144, "RobustScaler",
                 RobustScalerFitTransform(TableOf(m.ns["test_data"])),
                 Ref(m.ns, "test_data")))

\* scaled3 = MinMaxScaler().fit_transform(test_data)
BindScaled3(m) ==
    Put(m, "scaled3",
        TableObj(191, "MinMaxScaler",
                 MinMaxScalerFitTransform(TableOf(m.ns["test_data"])),
                 Ref(m.ns, "test_data")))

\* scaled4 = MaxAbsScaler().fit_transform(test_data)
BindScaled4(m) ==
    Put(m, "scaled4",
        TableObj(238, "MaxAbsScaler",
                 MaxAbsScalerFitTransform(TableOf(m.ns["test_data"])),
                 Ref(m.ns, "test_data")))

\* cancer = load_breast_cancer(): cancer.data and cancer.target
BindCancer(m) ==
    Put(m, "cancer",
        [TableObj(297, "load_breast_cancer", LoadData(seed), <<>>)
            EXCEPT !.y = LoadTarget(seed)])

\* selector = SelectKBest(chi2, k=...)
BindSelector(m, line, k) ==
    Put(m, "selector", [Obj(line, "SelectKBest(chi2)") EXCEPT !.k = k])

\* X_new = selector.fit_transform(<input>, cancer.target): the fit leaves
\* scores_ on the selector, the transform keeps the columns of the mask.
BindXNew(m, line, input) ==
    LET t   == TableOf(m.ns[input])
        sc  == Chi2(t, m.ns["cancer"].y)
        sup == KBestSupport(sc, m.ns["selector"].k)
        m1  == [m EXCEPT !.ns["selector"].scores = sc,
                         !.ns["selector"].support = sup,
                         !.ns["selector"].fitCols = NCols(t),
                         !.ns["selector"].src = Ref(m.ns, input)]
        m2  == Logged(m1, line, "selector", NCols(t), Ref(m.ns, input))
    IN  IF HasNegative(t) THEN m   \* chi2 raises before anything is set
        ELSE Put(m2, "X_new", TableObj(line, "SelectKBest", TakeColumns(t, sup), Ref(m.ns, input)))

\* X_new = selector.fit_transform(cancer.data, cancer.target)
BindXNew319(m) == BindXNew(m, 319, "cancer")

\* X_new = selector.fit_transform(X_poly_scaled, cancer.target)
BindXNew518(m) == BindXNew(m, 518, "X_poly_scaled")

\* kbest = pd.Series(selector.scores_, ...).sort_values(ascending=False):
\* ranking holds the features, scores their scores, best first.
BindKBest(m) ==
    LET sc    == m.ns["selector"].scores
        order == SortDescending(sc)
    IN  Put(m, "kbest",
            [Obj(329, "sort_values") EXCEPT
                !.ranking = order,
                !.scores = [p \in 1..Len(order) |-> sc[order[p]]],
                !.src = Ref(m.ns, "selector")])

\* lr, knn = LinearRegression(), KNeighborsClassifier()
BindModels(m) ==
    Put(Put(m, "lr", Obj(348, "LinearRegression")), "knn", Obj(348, "KNeighborsClassifier"))

\* X_train, X_test, y_train, y_test = train_test_split(<input>, cancer.target,
\*                                                     random_state=rs)
Split(m, line, input, rs) ==
    LET t     == TableOf(m.ns[input])
        y     == m.ns["cancer"].y
        n     == NRows(t)
        perm  == Permutation(rs, n)
        nt    == TestSize(n)
        test  == [i \in 1..nt |-> perm[i]]
        train == [i \in 1..(n - nt) |-> perm[nt + i]]
        from  == Ref(m.ns, input)
    IN  [m EXCEPT
            !.ns["X_train"] = TableObj(line, "train_test_split", TakeRows(t, train), from),
            !.ns["X_test"]  = TableObj(line, "train_test_split", TakeRows(t, test), from),
            !.ns["y_train"] = [Obj(line, "train_test_split") EXCEPT
                                  !.y = [i \in 1..Len(train) |-> y[train[i]]], !.src = from],
            !.ns["y_test"]  = [Obj(line, "train_test_split") EXCEPT
                                  !.y = [i \in 1..Len(test) |-> y[test[i]]], !.src = from]]

SplitRaw357(m) == Split(m, 357, "cancer", 1)

\* The split of the raw features pasted into the "selected" cell.
SplitSelectedRaw(m) == Split(m, 377, "cancer", 1)

SplitSelected377(m) == Split(m, 377, "X_new", 1)

SplitRaw477(m) == Split(m, 477, "cancer", 42)

SplitPoly496(m) == Split(m, 496, "X_poly_scaled", 42)

SplitBest519(m) == Split(m, 519, "X_new", 42)

SplitPoly542(m) == Split(m, 542, "X_poly_scaled", 42)

\* <est>.fit(X_train, y_train).score(X_test, y_test)
FitScore(m, line, est) ==
    LET cols == NCols(TableOf(m.ns["X_train"]))
        m1   == [m EXCEPT !.ns[est].fitCols = cols, !.ns[est].src = m.ns["X_train"].src]
    IN  Logged(m1, line, est, cols, m.ns["X_train"].src)

\* acc = <est>.fit(X_train, y_train).score(X_test, y_test), in per cent
BindAcc(m, line, est) ==
    Put(FitScore(m, line, est), "acc",
        [Obj(line, "score") EXCEPT !.k = Draw(seed, line, 0, 101)])

\* lr = LinearRegression()
BindLr404(m) == Put(m, "lr", Obj(404, "LinearRegression"))

\* rfe = RFE(estimator=lr, n_features_to_select=5, step=1)
BindRfe(m) == Put(m, "rfe", [Obj(405, "RFE") EXCEPT !.k = NFeaturesToSelect])

\* rfe.fit(cancer.data, cancer.target) returning: the fitted attributes.
RfeFitted(m) ==
    LET m1 == [m EXCEPT !.ns["rfe"].support = rfeSupport,
                        !.ns["rfe"].ranking = rfeRanking,
                        !.ns["rfe"].n_features_ = Cardinality(rfeSupport),
                        !.ns["rfe"].fitCols = NCols(TableOf(m.ns["cancer"])),
                        !.ns["rfe"].src = Ref(m.ns, "cancer")]
    IN  Logged(m1, 406, "rfe", Cardinality(rfeSupport), Ref(m.ns, "cancer"))

\* rf = RandomForestClassifier(max_depth=7, random_state=1)
BindRf(m) == Put(m, "rf", Obj(435, "RandomForestClassifier"))

\* The first RFECV asking for every core as well.
BindRfecvParallel(m) == Put(m, "rfecv", [Obj(436, "RFECV") EXCEPT !.njobs = -1])

\* rfecv = RFECV(estimator=rf): no n_jobs, the folds are fitted in turn.
BindRfecv436(m) == Put(m, "rfecv", [Obj(436, "RFECV") EXCEPT !.njobs = 1])

\* rfecv = RFECV(estimator=rfc, n_jobs=-1)
BindRfecv545(m) == Put(m, "rfecv", [Obj(545, "RFECV") EXCEPT !.njobs = -1])

\* rfecv.fit(<input>, ...) returning: n_features_ is the count the
\* cross-validated scores picked.
RfecvFitted(m, line, input, from) ==
    LET cols == NCols(TableOf(m.ns[input]))
        best == 1 + Draw(seed, line, 1, cols)
        m1   == [m EXCEPT !.ns["rfecv"].n_features_ = best,
                          !.ns["rfecv"].fitCols = cols,
                          !.ns["rfecv"].src = from]
    IN  Logged(m1, line, "rfecv", cols, from)

\* poly = PolynomialFeatures(2)
BindPoly(m) == Put(m, "poly", [Obj(466, "PolynomialFeatures") EXCEPT !.k = PolyDegree])

\* X_poly = poly.fit_transform(cancer.data)
BindXPoly(m) ==
    Put(m, "X_poly",
        TableObj(467, "PolynomialFeatures",
                 PolyFitTransform(TableOf(m.ns["cancer"]), m.ns["poly"].k),
                 Ref(m.ns, "cancer")))

\* rfc = RandomForestClassifier(max_depth=7, random_state=1)
BindRfc(m) == Put(m, "rfc", Obj(468, "RandomForestClassifier"))

\* The engineered features standardized instead.
BindXPolyScaledStandard(m) ==
    Put(m, "X_poly_scaled",
        TableObj(494, "StandardScaler",
                 StandardScalerFitTransform(TableOf(m.ns["X_poly"])),
                 Ref(m.ns, "X_poly")))

\* X_poly_scaled = MinMaxScaler().fit_transform(X_poly)
BindXPolyScaled(m) ==
    Put(m, "X_poly_scaled",
        TableObj(494, "MinMaxScaler",
                 MinMaxScalerFitTransform(TableOf(m.ns["X_poly"])),
                 Ref(m.ns, "X_poly")))

\* An import, or any other statement that only binds names to what a
\* library call handed back.
BindAll(m, line) ==
    LET stmt == CHOOSE st \in {Cells[c][i] : c \in {CellOfLine(line)},
                                            i \in 1..Len(Cells[CellOfLine(line)])} :
                    st.line = line
    IN  [m EXCEPT !.ns = [nm \in Names |->
                            IF nm \in stmt.targets THEN Obj(line, "import") ELSE @[nm]]]

\* The statement at `line`, run to its end without an error.
Eff(line, m) ==
    CASE line = 43  -> Put(m, "rows", [Obj(43, "literal") EXCEPT !.k = rows])
      [] line = 44  -> MakeEmpty(m)
      [] line \in 45..48 -> FillColumn(m, line - 44)
      [] line = 97  -> BindScaled1(m)
      [] line = 144 -> BindScaled2(m)
      [] line = 191 -> BindScaled3(m)
      [] line = 238 -> BindScaled4(m)
      [] line = 297 -> BindCancer(m)
      [] line = 318 -> BindSelector(m, 318, KUnivariate)
      [] line = 319 -> BindXNew319(m)
      [] line = 329 -> BindKBest(m)
      [] line = 348 -> BindModels(m)
      [] line = 357 -> SplitRaw357(m)
      [] line = 360 -> FitScore(m, 360, "lr")
      [] line = 361 -> FitScore(m, 361, "knn")
      [] line = 377 -> SplitSelected377(m)
      [] line = 380 -> FitScore(m, 380, "lr")
      [] line = 381 -> FitScore(m, 381, "knn")
      [] line = 404 -> BindLr404(m)
      [] line = 405 -> BindRfe(m)
      [] line = 406 -> RfeFitted(m)
      [] line = 435 -> BindRf(m)
      [] line = 436 -> BindRfecv436(m)
      [] line = 437 -> RfecvFitted(m, 437, "cancer", Ref(m.ns, "cancer"))
      [] line = 466 -> BindPoly(m)
      [] line = 467 -> BindXPoly(m)
      [] line = 468 -> BindRfc(m)
      [] line = 477 -> SplitRaw477(m)
      [] line = 480 -> BindAcc(m, 480, "rfc")
      [] line = 494 -> BindXPolyScaled(m)
      [] line = 496 -> SplitPoly496(m)
      [] line = 499 -> BindAcc(m, 499, "rfc")
      [] line = 517 -> BindSelector(m, 517, KPoly)
      [] line = 518 -> BindXNew518(m)
      [] line = 519 -> SplitBest519(m)
      [] line = 522 -> BindAcc(m, 522, "rfc")
      [] line = 542 -> SplitPoly542(m)
      [] line = 545 -> BindRfecv545(m)
      [] line = 546 -> Put(RfecvFitted(m, 546, "X_train", m.ns["X_train"].src), "acc",
                           [Obj(546, "score") EXCEPT !.k = Draw(seed, 546, 0, 101)])
      [] OTHER      -> BindAll(m, line)

\* chi2 refuses a table with a negative entry: the call raises for certain.
MustRaise(line, m) ==
    \/ line = 319 /\ HasNegative(TableOf(m.ns["cancer"]))
    \/ line = 518 /\ HasNegative(TableOf(m.ns["X_poly_scaled"]))

\* A try/except around the second fit_transform that swallows its error.
CatchesFitTransform(line) == line = 518

\* The notebook holds no try statement: no line's error is caught.
Catches(line) == FALSE

\* ------------------------------------------------------------------ kernel
Init ==
    /\ seed \in 0..MaxSeed
    /\ pc = 1
    /\ ip = 1
    /\ status = "idle"
    /\ ns = [nm \in Names |-> Unbound]
    /\ cellStart = [nm \in Names |-> Unbound]
    /\ err = NoErr
    /\ trace = <<>>
    /\ fits = <<>>
    /\ rfeSupport = {}
    /\ rfeRanking = <<>>
    /\ rfeRefits = 0
    /\ pendingFolds = {}
    /\ workers = 0
    /\ prevSel = Unbound

CurCell == Cells[pc]

Machine == [ns |-> ns, fits |-> fits]

\* The machines the statements i..j of the current cell leave behind, one
\* after the other: acc ends with the machine the next statement starts from.
RECURSIVE RunFrom(_, _, _)
RunFrom(acc, i, j) ==
    IF i > j THEN acc
    ELSE RunFrom(Append(acc, Eff(CurCell[i].line, acc[Len(acc)])), i + 1, j)

Lines(i, j) == [q \in 1..(j - i + 1) |-> CurCell[i + q - 1].line]

\* The first statement at or after i that waits in a long library call.
NextLong(i) ==
    IF \E j \in i..Len(CurCell) : CurCell[j].long # ""
    THEN CHOOSE j \in i..Len(CurCell) :
            /\ CurCell[j].long # ""
            /\ \A q \in i..(j - 1) : CurCell[q].long = ""
    ELSE Len(CurCell) + 1

\* The kernel's position after statement j of the current cell.
MoveTo(j) ==
    IF j >= Len(CurCell) THEN pc' = pc + 1 /\ ip' = 1
    ELSE pc' = pc /\ ip' = j + 1

ErrorOf(line, m) ==
    [line |-> line,
     what |-> IF MustRaise(line, m) THEN "ValueError: Input X must be non-negative."
              ELSE "raised by the library"]

\* The kernel runs the statements of the current cell from ip up to the
\* next long library call or the end of the cell.  Any statement that calls
\* the library may raise; nothing catches it, so the statements before it
\* have run, it and the ones after it have not, and the run stops there.
RunStatements ==
    /\ status = "idle"
    /\ pc <= NCells
    /\ CurCell[ip].long = ""
    /\ \E last \in {NextLong(ip) - 1} :
       \* at[q]: the machine statement ip + q - 1 starts from
       \E at \in {RunFrom(<<Machine>>, ip, last)} :
           /\ cellStart' = IF ip = 1 THEN ns ELSE cellStart
           /\ \/ /\ \A i \in ip..last : ~MustRaise(CurCell[i].line, at[i - ip + 1])
                 /\ ns' = at[Len(at)].ns
                 /\ fits' = at[Len(at)].fits
                 /\ trace' = trace \o Lines(ip, last)
                 /\ MoveTo(last)
                 /\ UNCHANGED <<status, err>>
              \/ \E i \in ip..last :
                    LET before == at[i - ip + 1]
                        line   == CurCell[i].line
                    IN  /\ CurCell[i].calls
                        /\ \A j \in ip..(i - 1) : ~MustRaise(CurCell[j].line, at[j - ip + 1])
                        /\ err' = ErrorOf(line, before)
                        /\ IF Catches(line)
                           THEN LET rest == RunFrom(<<before>>, i + 1, last)
                                IN  /\ ns' = rest[Len(rest)].ns
                                    /\ fits' = rest[Len(rest)].fits
                                    /\ trace' = trace \o Lines(ip, i - 1) \o Lines(i + 1, last)
                                    /\ MoveTo(last)
                                    /\ UNCHANGED status
                           ELSE /\ ns' = before.ns
                                /\ fits' = before.fits
                                /\ trace' = trace \o Lines(ip, i - 1)
                                /\ status' = "stopped"
                                /\ UNCHANGED <<pc, ip>>
    /\ UNCHANGED <<seed, rfeSupport, rfeRanking, rfeRefits, pendingFolds, workers, prevSel>>

\* ---------------------------------------------------------------- RFE.fit
\* The importance the refitted estimator gives feature f among `support`.
Importance(support, f) == Draw(seed, Cardinality(support), f, 97)

\* How many features one refit eliminates.
RfeThreshold(remaining, target, step) == Min2(step, remaining - target)

\* The th least important features of `support` (lowest index first on ties).
LeastImportant(support, th) ==
    {f \in support :
        Cardinality({g \in support :
                        \/ Importance(support, g) < Importance(support, f)
                        \/ (Importance(support, g) = Importance(support, f) /\ g < f)}) < th}

\* rfe.fit(cancer.data, cancer.target) is entered: every feature is in.
RfeBegin ==
    /\ status = "idle"
    /\ pc <= NCells
    /\ CurCell[ip].long = "rfe"
    /\ status' = "rfe"
    /\ rfeSupport' = 1..NCols(TableOf(ns["cancer"]))
    /\ rfeRanking' = [f \in 1..NCols(TableOf(ns["cancer"])) |-> 1]
    /\ rfeRefits' = 0
    /\ cellStart' = IF ip = 1 THEN ns ELSE cellStart
    /\ UNCHANGED <<seed, pc, ip, ns, err, trace, fits, pendingFolds, workers, prevSel>>

\* One turn of the loop: fit on the features still in, drop the least
\* important, push the ranking of everything that is out.
RfeRefit ==
    /\ status = "rfe"
    /\ Cardinality(rfeSupport) > ns["rfe"].k
    /\ LET th   == RfeThreshold(Cardinality(rfeSupport), ns["rfe"].k, RfeStep)
           out  == LeastImportant(rfeSupport, th)
           left == rfeSupport \ out
       IN  /\ rfeSupport' = left
           /\ rfeRanking' = [f \in 1..Len(rfeRanking) |->
                               IF f \in left THEN rfeRanking[f] ELSE rfeRanking[f] + 1]
    /\ rfeRefits' = rfeRefits + 1
    /\ UNCHANGED <<seed, pc, ip, status, ns, cellStart, err, trace, fits,
                   pendingFolds, workers, prevSel>>

\* The loop is over: the final fit, and rfe.fit returns.
RfeFinish ==
    /\ status = "rfe"
    /\ Cardinality(rfeSupport) <= ns["rfe"].k
    /\ LET m1 == Eff(CurCell[ip].line, Machine)
       IN  ns' = m1.ns /\ fits' = m1.fits
    /\ trace' = Append(trace, CurCell[ip].line)
    /\ status' = "idle"
    /\ MoveTo(ip)
    /\ UNCHANGED <<seed, cellStart, err, rfeSupport, rfeRanking, rfeRefits,
                   pendingFolds, workers, prevSel>>

\* -------------------------------------------------------------- RFECV.fit
\* n_jobs as a number of workers: -1 is every core of the machine.
EffectiveJobs(njobs) == IF njobs = -1 THEN NCores ELSE njobs

\* rfecv.fit is entered.  With one job the kernel fits the folds itself;
\* otherwise the library starts workers that fit them side by side.
RfecvBegin ==
    /\ status = "idle"
    /\ pc <= NCells
    /\ CurCell[ip].long = "rfecv"
    /\ status' = "rfecv"
    /\ pendingFolds' = 1..NFolds
    /\ workers' = IF EffectiveJobs(ns["rfecv"].njobs) = 1 THEN 0
                  ELSE Min2(EffectiveJobs(ns["rfecv"].njobs), NFolds)
    /\ cellStart' = IF ip = 1 THEN ns ELSE cellStart
    /\ UNCHANGED <<seed, pc, ip, ns, err, trace, fits, rfeSupport, rfeRanking,
                   rfeRefits, prevSel>>

\* One fold is fitted and scored: the next one in turn, or, with workers,
\* whichever finishes first.
RfecvFold ==
    /\ status = "rfecv"
    /\ \E f \in pendingFolds :
          /\ workers = 0 => \A g \in pendingFolds : f <= g
          /\ pendingFolds' = pendingFolds \ {f}
    /\ UNCHANGED <<seed, pc, ip, status, ns, cellStart, err, trace, fits,
                   rfeSupport, rfeRanking, rfeRefits, workers, prevSel>>

\* Every fold is in: the workers are gone, the kernel takes the result.
RfecvJoin ==
    /\ status = "rfecv"
    /\ pendingFolds = {}
    /\ workers' = 0
    /\ LET m1 == Eff(CurCell[ip].line, Machine)
       IN  ns' = m1.ns /\ fits' = m1.fits
    /\ trace' = Append(trace, CurCell[ip].line)
    /\ status' = "idle"
    /\ MoveTo(ip)
    /\ UNCHANGED <<seed, cellStart, err, rfeSupport, rfeRanking, rfeRefits,
                   pendingFolds, prevSel>>

\* A fit inside rfe.fit or rfecv.fit raises: the call is abandoned, nothing
\* it would have bound is bound, the run stops.
LongRaise ==
    /\ status \in {"rfe", "rfecv"}
    /\ err' = [line |-> CurCell[ip].line, what |-> "raised by the library"]
    /\ IF Catches(CurCell[ip].line)
       THEN status' = "idle" /\ MoveTo(ip)
       ELSE status' = "stopped" /\ UNCHANGED <<pc, ip>>
    /\ workers' = 0
    /\ UNCHANGED <<seed, ns, cellStart, trace, fits, rfeSupport, rfeRanking,
                   rfeRefits, pendingFolds, prevSel>>

Next ==
    \/ RunStatements
    \/ RfeBegin
    \/ RfeRefit
    \/ RfeFinish
    \/ RfecvBegin
    \/ RfecvFold
    \/ RfecvJoin
    \/ LongRaise

Spec == Init /\ [][Next]_vars

\* rfe.fit is a plain loop in the kernel's only thread: once entered it keeps
\* taking its next turn until it returns or raises.
FairSpec == Spec /\ WF_vars(RfeRefit) /\ WF_vars(RfeFinish)

\* ------------------------------------------- SelectKBest as a function of k
\* The values of k tried on a table: every k on the raw table; on the scaled
\* polynomial table the 50 and the 100 of the closing remark, and one more.
KChoices(input) ==
    IF input = "cancer" THEN 1..NFeatures ELSE {KPoly \div 2, KPoly, KPoly + 1}

\* The table the univariate selection is made on: cancer.data until
\* X_poly_scaled is bound, X_poly_scaled from then on.
SelectInput == IF ns["X_poly_scaled"].line # 0 THEN "X_poly_scaled" ELSE "cancer"

\* The namespace once cancer is bound, or once poly, X_poly and
\* X_poly_scaled are bound as well.
InitSelect ==
    /\ seed \in 0..MaxSeed
    /\ pc = NCells + 1
    /\ ip = 1
    /\ status = "select"
    /\ \E m0 \in {BindCancer([ns |-> [nm \in Names |-> Unbound], fits |-> <<>>])} :
          \/ ns = m0.ns
          \/ ns = BindXPolyScaled(BindXPoly(BindPoly(m0))).ns
    /\ cellStart = [nm \in Names |-> Unbound]
    /\ err = NoErr
    /\ trace = <<>>
    /\ fits = <<>>
    /\ rfeSupport = {}
    /\ rfeRanking = <<>>
    /\ rfeRefits = 0
    /\ pendingFolds = {}
    /\ workers = 0
    /\ prevSel = Unbound

\* selector = SelectKBest(chi2, k=k); X_new = selector.fit_transform(...)
\* run again on the same table with k raised.
Reselect ==
    /\ status = "select"
    /\ \E k \in KChoices(SelectInput) :
          /\ k > ns["selector"].k
          /\ prevSel' = ns["selector"]
          /\ ns' = IF SelectInput = "cancer"
                   THEN BindXNew319(BindSelector(Machine, 318, k)).ns
                   ELSE BindXNew518(BindSelector(Machine, 517, k)).ns
    /\ UNCHANGED <<seed, pc, ip, status, cellStart, err, trace, fits, rfeSupport,
                   rfeRanking, rfeRefits, pendingFolds, workers>>

SpecSelect == InitSelect /\ [][Reselect]_vars

\* ------------------------------------------------------------------ claims
Bound(name) == ns[name].line # 0

Table(name) == TableOf(ns[name])

AllStatements == UNION {{Cells[c][i] : i \in 1..Len(Cells[c])} : c \in 1..NCells}

\* The line of the last statement before `line` that binds `name` (0: none).
LatestBinder(name, line) ==
    LET at == {st.line : st \in {x \in AllStatements : name \in x.targets /\ x.line < line}}
    IN  IF at = {} THEN 0 ELSE CHOOSE l \in at : \A q \in at : q <= l

Logs(line) == \E i \in 1..Len(fits) : fits[i].line = line

ScalingSteps ==
    { <<"scaled1", "test_data">>, <<"scaled2", "test_data">>, <<"scaled3", "test_data">>,
      <<"scaled4", "test_data">>, <<"X_poly_scaled", "X_poly">> }

\* C1: every scaling step (the four scalers on test_data, MinMaxScaler on
\* X_poly) returns a table with as many rows and as many columns as the table
\* it was given.
C1_ScalingKeepsShape ==
    \A p \in ScalingSteps :
        Bound(p[1]) =>
            /\ ns[p[1]].src = Ref(ns, p[2])
            /\ NRows(Table(p[1])) = NRows(Table(p[2]))
            /\ NCols(Table(p[1])) = NCols(Table(p[2]))
            /\ \A r \in 1..NRows(Table(p[1])) : Len(ns[p[1]].vals[r]) = NCols(Table(p[2]))

C1_Witness == Bound("scaled1") /\ Bound("scaled4") /\ Bound("X_poly_scaled")

\* C2: SelectKBest(chi2, k=5).fit_transform(cancer.data, cancer.target)
\* returns a table with the rows of cancer.data and exactly 5 columns; every
\* column is an input column whose score is among the 5 largest of
\* selector.scores_, and the scores of the kept columns are the first 5 of
\* the descending-sorted kbest series.
C2_KBestKeepsTopFive ==
    ns["X_new"].line = 319 =>
        /\ NRows(Table("X_new")) = NRows(Table("cancer"))
        /\ NCols(Table("X_new")) = 5
        /\ ns["selector"].line = 318 =>
              LET sc  == ns["selector"].scores
                  own == Chi2(Table("X_new"), ns["cancer"].y)
                  ord == SortDescending(own)
              IN  /\ Len(sc) = NCols(Table("cancer"))
                  /\ \A p \in 1..NCols(Table("X_new")) :
                        \E f \in 1..Len(sc) :
                           /\ Column(Table("X_new"), p) = Column(Table("cancer"), f)
                           /\ Cardinality({g \in 1..Len(sc) : ScoreLess(sc[f], sc[g])}) < 5
                  /\ Bound("kbest") =>
                        \A p \in 1..5 : ScoreEq(own[ord[p]], ns["kbest"].scores[p])

C2_Witness == ns["X_new"].line = 319 /\ ns["selector"].line = 318 /\ Bound("kbest")

\* C3 (state): inside rfe.fit the features still in are the 30 less one per
\* refit and never fewer than 5; once rfe.fit has returned, exactly 5
\* features remain after exactly 25 eliminations.
C3_RfeCounts ==
    /\ status = "rfe" =>
          /\ Cardinality(rfeSupport) = 30 - rfeRefits
          /\ Cardinality(rfeSupport) >= 5
    /\ ns["rfe"].n_features_ # 0 =>
          /\ ns["rfe"].n_features_ = 5
          /\ Cardinality(ns["rfe"].support) = 5
          /\ rfeRefits = 25

\* C3 (step): a refit removes a feature only while more than 5 remain, and
\* then exactly one, a least important one of those remaining.
C3_RfeStep ==
    (status = "rfe" /\ rfeSupport' # rfeSupport) =>
        /\ Cardinality(rfeSupport) > 5
        /\ rfeRefits' = rfeRefits + 1
        /\ \E f \in rfeSupport :
              /\ rfeSupport' = rfeSupport \ {f}
              /\ \A g \in rfeSupport : Importance(rfeSupport, f) <= Importance(rfeSupport, g)

\* C3: recursive feature elimination on the 30 features of cancer.data with
\* n_features_to_select=5 and step=1 always terminates, removes exactly one
\* least-important remaining feature per refit (25 removals), never removes
\* one once 5 or fewer remain, and ends with exactly 5 features.
C3_RfeTerminatesWithFive ==
    /\ []C3_RfeCounts
    /\ [][C3_RfeStep]_vars
    /\ (status = "rfe") ~> (status # "rfe")

C3_Witness == ns["rfe"].n_features_ = 5 /\ rfeRefits = 25 /\ status = "idle"

\* C4: for the same table, target and scoring function, the features
\* SelectKBest keeps with k are among those it keeps with any larger k; a
\* feature outside the best 100 is only reached with k above 100.
C4_SelectionIsNested ==
    (prevSel.line # 0 /\ prevSel.src = ns["selector"].src /\ prevSel.k <= ns["selector"].k) =>
        /\ prevSel.support \subseteq ns["selector"].support
        /\ Cardinality(prevSel.support) = prevSel.k
        /\ Cardinality(ns["selector"].support) = ns["selector"].k

C4_Witness ==
    /\ prevSel.k = 100
    /\ ns["selector"].k = 101
    /\ prevSel.src = ns["selector"].src
    /\ prevSel.support # ns["selector"].support

\* C5: no table handed to a chi2-scored selector has a negative entry; the
\* selector of line 517 is fitted on X_poly_scaled, which MinMaxScaler made
\* before the fit and whose entries all lie between zero and one; chi2 is
\* never fitted on X_poly itself nor on a StandardScaler output.
C5_Chi2InputsNonNegative ==
    /\ err.what # "ValueError: Input X must be non-negative."
    /\ \A i \in 1..Len(fits) :
          fits[i].est = "selector" =>
             LET input == fits[i].src[1]
             IN  /\ ns[input].line = fits[i].src[2]
                 /\ ~HasNegative(Table(input))
                 /\ input # "X_poly"
                 /\ ns[input].by # "StandardScaler"
                 /\ fits[i].line = 518 =>
                       /\ input = "X_poly_scaled"
                       /\ ns[input].by = "MinMaxScaler"
                       /\ ns[input].line < 518
                       /\ \A r \in 1..NRows(Table(input)) : \A c \in 1..NCols(Table(input)) :
                             /\ 0 <= ns[input].vals[r][c]
                             /\ ns[input].vals[r][c] <= ns[input].den[c]

C5_Witness == Logs(319) /\ Logs(518)

\* C6: PolynomialFeatures(2) turns the 30 columns of cancer.data into exactly
\* 496, rows unchanged; X_poly and X_poly_scaled both have 496 features and
\* SelectKBest(k=100) keeps 100 of the 496.
C6_PolyHas496Columns ==
    /\ Bound("X_poly") =>
          /\ NCols(Table("cancer")) = 30
          /\ Shape(Table("X_poly")) = <<NRows(Table("cancer")), 496>>
    /\ Bound("X_poly_scaled") =>
          Shape(Table("X_poly_scaled")) = <<NRows(Table("cancer")), 496>>
    /\ ns["X_new"].line = 518 =>
          /\ ns["selector"].fitCols = 496
          /\ Cardinality(ns["selector"].support) = 100
          /\ Shape(Table("X_new")) = <<NRows(Table("cancer")), 100>>
    /\ ns["rfecv"].line = 545 /\ ns["rfecv"].n_features_ # 0 =>
          /\ ns["rfecv"].fitCols = 496
          /\ ns["rfecv"].n_features_ \in 1..496

C6_Witness == ns["X_new"].line = 518 /\ ns["rfecv"].line = 545 /\ ns["rfecv"].n_features_ # 0

\* C7: with the cells run once each in order, the "Fit selected features"
\* cell trains LR and KNN on the 5-column X_new of line 319; every fit
\* consumes the latest earlier binding of its input; and selector and X_new
\* are only rebound to the 100-column selection after that cell has finished.
C7_FitSelectedSeesFiveColumns ==
    /\ \A i \in 1..Len(fits) :
          /\ fits[i].line \in {380, 381} =>
                /\ fits[i].cols = 5
                /\ fits[i].src = <<"X_new", 319>>
          /\ fits[i].src[2] = LatestBinder(fits[i].src[1], fits[i].line)
    /\ (ns["selector"].line = 517 \/ ns["X_new"].line = 518) => Logs(380) /\ Logs(381)
    /\ Logs(381) /\ ns["X_new"].line = 319 => NCols(Table("X_new")) = 5

C7_Witness == ns["X_new"].line = 518 /\ Logs(380) /\ Logs(381)

C9_OnlyLastCellParallel ==
    /\ workers > 0 =>
          /\ status = "rfecv"
          /\ pc = NCells
          /\ CurCell[ip].line = 546
    /\ \A nm \in Names :
          (ns[nm].njobs # 0 /\ EffectiveJobs(ns[nm].njobs) > 1) => ns[nm].line = 545
    /\ \A i \in 1..(Len(trace) - 1) : trace[i] < trace[i + 1]

\* C9 (step): while workers are fitting folds no notebook name is written,
\* and the kernel only moves to the next cell, from a finished one.
C9_Step ==
    /\ (workers > 0 /\ pendingFolds # {}) => ns' = ns
    /\ pc' # pc => pc' = pc + 1 /\ ip' = 1 /\ status' = "idle" /\ workers' = 0

\* C9: the cells run one at a time, each to completion before the next; the
\* only request for parallel work is the n_jobs=-1 of the last code cell, and
\* no notebook name is written by two activities that can interleave.
C9_SequentialKernel == []C9_OnlyLastCellParallel /\ [][C9_Step]_vars

C9_Witness == workers > 1 /\ Cardinality(pendingFolds) = 1 /\ status = "rfecv"

====
